---- MODULE Spec2Model ----
(***************************************************************************)
(* Model of the template filler: the placeholder scan                      *)
(* (extractFieldsFromDoc / extractFieldsFromExcel), the table fragment     *)
(* builder (generateTableXml / createCell), the document generation        *)
(* (generateFilledDocument, driven by handleGenerate), the wizard of the   *)
(* App, the spreadsheet generation (generateFilledExcel), the table export *)
(* (generateExcelTable) and the table editor (ProductTable).               *)
(*                                                                         *)
(* Strings are sequences of one-character strings.                         *)
(***************************************************************************)
EXTENDS Integers, Sequences, FiniteSets, TLC

VARIABLES
    \* ---- placeholder scan ----
    segs,       \* the raw text of the uploaded file, as the pieces it is built from
    cut,        \* spreadsheet input: pieces 1..cut are cell 1, the rest cell 2
    pkg,        \* "ok" | "unreadable" (FileReader error) | "invalid" (extraction throws)
    docScan,    \* the promise of extractFieldsFromDoc
    xlsScan,    \* the promise of extractFieldsFromExcel
    repScan,    \* extractFieldsFromDoc on the text with one of its tags repeated
    \* ---- table fragment ----
    items,      \* tableData.items
    total,      \* tableData.total
    tableXml,   \* the fragment generateTableXml returned
    tableDom,   \* the fragment as parsed back by the XML parser
    \* ---- document generation ----
    file,       \* the uploaded file: "ok" | "empty" | "corrupt" | "badTemplate" | "unreadable"
    template,   \* the body of word/document.xml in the file: a sequence of blocks
    fields,     \* App state: the fields the scan of the file returned
    formData,   \* App state: field name -> typed value, NoValue where none
    tableData,  \* App state: [present, items, total]
    step,       \* App state: AppStep
    isProcessing, \* App state
    appError,   \* App state: error
    downloads,  \* the packages handed to the browser for download, oldest first
    reader,     \* the FileReader of generateFilledDocument
    gen,        \* the promise of generateFilledDocument
    settled,    \* how many times resolve or reject was called on gen
    generations, \* how many times handleGenerate was entered
    run,        \* what reader.onload computed on its way
    currentFieldIndex, \* App state: the field the wizard shows
    uploads,    \* how many times handleFileUpload was entered
    \* ---- spreadsheet generation ----
    xlsFile,    \* the uploaded workbook: "ok" | "invalid"
    sheet,      \* the rows of its worksheet, each a sequence of cells
    xlsData,    \* data: field name -> value, NoValue where none
    xlsTableData, \* tableData: [present, items, total]
    xlsFields,  \* fields
    xlsOut,     \* the promise of generateFilledExcel: [status, rows]
    \* ---- table export ----
    csvItems,   \* items
    csvTotal,   \* total
    csvBlob,    \* the Blob generateExcelTable returned: [built, text]
    \* ---- table editor ----
    edItems,    \* ProductTable state: items
    edTotal,    \* ProductTable state: total
    edSaved     \* what onSave last handed to the App: [present, items, total]

scanVars == <<segs, cut, pkg, docScan, xlsScan, repScan>>
tableVars == <<items, total, tableXml, tableDom>>

genVars == <<file, template, fields, formData, tableData, step, isProcessing,
             appError, downloads, reader, gen, settled, generations, run,
             currentFieldIndex, uploads>>

restVars == <<xlsFile, sheet, xlsData, xlsTableData, xlsFields, xlsOut,
              csvItems, csvTotal, csvBlob, edItems, edTotal, edSaved>>

vars == <<scanVars, tableVars, genVars, restVars>>

(***************************************************************************)
(* Bounds                                                                  *)
(***************************************************************************)
MaxSegs == 3
MaxItems == 2
MaxChunks == 2
MaxBlocks == 2
MaxRand == 1
MaxGenerations == 2
MaxUploads == 2

(***************************************************************************)
(* Text helpers                                                            *)
(***************************************************************************)
RECURSIVE Flatten(_)
Flatten(ss) == IF ss = <<>> THEN <<>> ELSE Head(ss) \o Flatten(Tail(ss))

StartsAt(t, i, pat) ==
    /\ i >= 1
    /\ i + Len(pat) - 1 <= Len(t)
    /\ SubSeq(t, i, i + Len(pat) - 1) = pat

\* String.prototype.trim
IsWhitespace(c) == c \in {" ", "\n"}

RECURSIVE TrimStart(_)
TrimStart(s) ==
    IF s # <<>> /\ IsWhitespace(Head(s)) THEN TrimStart(Tail(s)) ELSE s

RECURSIVE TrimEnd(_)
TrimEnd(s) ==
    IF s # <<>> /\ IsWhitespace(s[Len(s)])
    THEN TrimEnd(SubSeq(s, 1, Len(s) - 1))
    ELSE s

Trim(s) == TrimEnd(TrimStart(s))

\* String.prototype.indexOf, 0 when absent (positions are 1-based here)
RECURSIVE IndexOfFrom(_, _, _)
IndexOfFrom(s, pat, i) ==
    IF i + Len(pat) - 1 > Len(s) THEN 0
    ELSE IF StartsAt(s, i, pat) THEN i
    ELSE IndexOfFrom(s, pat, i + 1)

\* String.prototype.includes
Includes(s, pat) == IndexOfFrom(s, pat, 1) # 0

(***************************************************************************)
(* The scan                                                                *)
(***************************************************************************)
OPEN_DELIM  == <<"{", "-">>
CLOSE_DELIM == <<"-", "}">>

TABLE_KEYWORD == <<"T", "B">>

\* the lazy group ([\s\S]+?) followed by -} : the first -} that leaves at
\* least one character of content, 0 when there is none
RECURSIVE FindClose(_, _)
FindClose(t, j) ==
    IF j + 1 > Len(t) THEN 0
    ELSE IF StartsAt(t, j, CLOSE_DELIM) THEN j
    ELSE FindClose(t, j + 1)

\* PLACEHOLDER_REGEX anchored at position i: the position of the closing -}, or 0
MatchAt(t, i) ==
    IF StartsAt(t, i, OPEN_DELIM) THEN FindClose(t, i + 3) ELSE 0

\* text.matchAll(PLACEHOLDER_REGEX): leftmost matches, each search resuming
\* after the previous match; tag is match[0], content is match[1]
RECURSIVE MatchAllFrom(_, _)
MatchAllFrom(t, i) ==
    IF i > Len(t) THEN <<>>
    ELSE LET j == MatchAt(t, i) IN
         IF j = 0 THEN MatchAllFrom(t, i + 1)
         ELSE <<[index |-> i, tag |-> SubSeq(t, i, j + 1),
                 content |-> SubSeq(t, i + 2, j - 1)]>>
              \o MatchAllFrom(t, j + 2)

PLACEHOLDER_REGEX(t) == MatchAllFrom(t, 1)

\* a classification by equality with the keyword
IsTableExact(content) == content = TABLE_KEYWORD

IsTableContent(content) == Includes(content, TABLE_KEYWORD)

\* a forEach body that keys the set by the untrimmed capture
CollectMatchRaw(acc, match) ==
    IF match.content \in acc.unique THEN acc
    ELSE [unique |-> acc.unique \cup {match.content},
          fields |-> Append(acc.fields,
                       [originalTag |-> match.tag,
                        fieldName   |-> Trim(match.content),
                        isTable     |-> Includes(Trim(match.content), TABLE_KEYWORD)])]

\* the body of matches.forEach: acc is [unique, fields]
CollectMatch(acc, match) ==
    LET content == Trim(match.content) IN
    IF content \in acc.unique THEN acc
    ELSE [unique |-> acc.unique \cup {content},
          fields |-> Append(acc.fields,
                       [originalTag |-> match.tag,
                        fieldName   |-> content,
                        isTable     |-> IsTableContent(content)])]

RECURSIVE CollectMatches(_, _)
CollectMatches(acc, matches) ==
    IF matches = <<>> THEN acc
    ELSE CollectMatches(CollectMatch(acc, Head(matches)), Tail(matches))

\* the comparator of fields.sort
CompareFields(a, b) ==
    IF a.isTable = b.isTable THEN 0 ELSE IF a.isTable THEN 1 ELSE -1

\* Array.prototype.sort is stable: x goes after every element that does not
\* compare greater than it
RECURSIVE InsertSorted(_, _)
InsertSorted(sorted, x) ==
    IF sorted = <<>> THEN <<x>>
    ELSE IF CompareFields(Head(sorted), x) > 0 THEN <<x>> \o sorted
    ELSE <<Head(sorted)>> \o InsertSorted(Tail(sorted), x)

\* a scan that leaves the fields in source order
SortFieldsNone(fs) == fs

RECURSIVE SortFields(_)
SortFields(fs) ==
    IF fs = <<>> THEN <<>>
    ELSE InsertSorted(SortFields(SubSeq(fs, 1, Len(fs) - 1)), fs[Len(fs)])

EmptyAcc == [unique |-> {}, fields |-> <<>>]

\* lines 21-37 of extractFieldsFromDoc, on the extracted raw text
ScanText(text) ==
    SortFields(CollectMatches(EmptyAcc, PLACEHOLDER_REGEX(text)).fields)

\* lines 54-82 of extractFieldsFromExcel, on the texts of the cells in
\* sheet / row / cell order
RECURSIVE CollectCells(_, _)
CollectCells(acc, cells) ==
    IF cells = <<>> THEN acc
    ELSE CollectCells(CollectMatches(acc, PLACEHOLDER_REGEX(Head(cells))),
                      Tail(cells))

ScanCells(cells) == SortFields(CollectCells(EmptyAcc, cells).fields)

(***************************************************************************)
(* Inputs of the scan                                                      *)
(***************************************************************************)
Pieces ==
    { OPEN_DELIM, CLOSE_DELIM, <<"a">>, <<" ">>,
      <<"{", "-", "a", "-", "}">>,
      <<"{", "-", " ", "a", " ", "-", "}">>,
      <<"{", "-", "T", "-", "}">>,
      <<"{", "-", "T", "B", "-", "}">>,
      <<"{", "-", "a", "T", "B", "-", "}">> }

SegLists == UNION { [1..n -> Pieces] : n \in 0..MaxSegs }

RawText == Flatten(segs)

CellTexts ==
    <<Flatten(SubSeq(segs, 1, cut)), Flatten(SubSeq(segs, cut + 1, Len(segs)))>>

Idle    == [status |-> "idle", fields |-> <<>>]
Resolved(fs) == [status |-> "resolved", fields |-> fs]
Rejected == [status |-> "rejected", fields |-> <<>>]

NoValue == <<"#none">>
NoTableData == [present |-> FALSE, items |-> <<>>, total |-> 0]
NoRun == [placeholder |-> <<>>, rendered |-> <<>>, searched |-> FALSE,
          spliced |-> FALSE, warned |-> FALSE, trace |-> <<>>]
NoPromise == [status |-> "idle", blob |-> <<>>, error |-> "none"]

GenIdle ==
    /\ file = "ok"
    /\ template = <<>>
    /\ fields = <<>>
    /\ formData = NoValue
    /\ tableData = NoTableData
    /\ step = "UPLOAD"
    /\ isProcessing = FALSE
    /\ appError = "none"
    /\ downloads = <<>>
    /\ reader = "idle"
    /\ gen = NoPromise
    /\ settled = 0
    /\ generations = 0
    /\ run = NoRun
    /\ currentFieldIndex = 0
    /\ uploads = 0

ExcelIdle ==
    /\ xlsFile = "ok"
    /\ sheet = <<>>
    /\ xlsData = NoValue
    /\ xlsTableData = NoTableData
    /\ xlsFields = <<>>
    /\ xlsOut = [status |-> "idle", rows |-> <<>>]

CsvIdle ==
    /\ csvItems = <<>>
    /\ csvTotal = 0
    /\ csvBlob = [built |-> FALSE, text |-> <<>>]

EditIdle ==
    /\ edItems = <<>>
    /\ edTotal = 0
    /\ edSaved = NoTableData

RestIdle == ExcelIdle /\ CsvIdle /\ EditIdle

TableIdle ==
    /\ items = <<>>
    /\ total = 0
    /\ tableXml = [built |-> FALSE, rows |-> <<>>]
    /\ tableDom = [built |-> FALSE, rows |-> <<>>]

ScanInit ==
    /\ RestIdle
    /\ TableIdle
    /\ GenIdle
    /\ segs \in SegLists
    /\ cut \in 0..Len(segs)
    /\ pkg \in {"ok", "unreadable", "invalid"}
    /\ docScan = Idle
    /\ xlsScan = Idle
    /\ repScan = [status |-> "idle", fields |-> <<>>, match |-> 0]

\* a scan that fails when it finds no marker
ScanOutcomeStrict(p, fs) ==
    IF p = "ok" /\ fs # <<>> THEN Resolved(fs) ELSE Rejected

\* how a scan settles: reader.onerror and the catch reject, otherwise the
\* fields are resolved, also when there are none
ScanOutcome(p, fs) == IF p = "ok" THEN Resolved(fs) ELSE Rejected

\* extractFieldsFromDoc(file)
extractFieldsFromDoc ==
    /\ docScan.status = "idle"
    /\ docScan' = ScanOutcome(pkg, ScanText(RawText))
    /\ UNCHANGED <<segs, cut, pkg, xlsScan, repScan, tableVars, genVars,
                   restVars>>

\* extractFieldsFromExcel(file): arrayBuffer() or load() may reject
extractFieldsFromExcel ==
    /\ xlsScan.status = "idle"
    /\ xlsScan' = ScanOutcome(pkg, ScanCells(CellTexts))
    /\ UNCHANGED <<segs, cut, pkg, docScan, repScan, tableVars, genVars,
                   restVars>>

\* the raw text with the k-th matched tag written twice in succession
RepeatTag(text, k) ==
    LET m == PLACEHOLDER_REGEX(text)[k]
        e == m.index + Len(m.tag) - 1
    IN SubSeq(text, 1, e) \o m.tag \o SubSeq(text, e + 1, Len(text))

\* extractFieldsFromDoc on a second upload: the same text with one tag repeated
extractFieldsFromRepeated ==
    /\ repScan.status = "idle"
    /\ pkg = "ok"
    /\ \E k \in 1..Len(PLACEHOLDER_REGEX(RawText)) :
          repScan' = [status |-> "resolved",
                      fields |-> ScanText(RepeatTag(RawText, k)),
                      match  |-> k]
    /\ UNCHANGED <<segs, cut, pkg, docScan, xlsScan, tableVars, genVars,
                   restVars>>

ScanNext ==
    \/ extractFieldsFromDoc
    \/ extractFieldsFromExcel
    \/ extractFieldsFromRepeated

SpecScan == ScanInit /\ [][ScanNext]_vars

(***************************************************************************)
(* The table fragment                                                      *)
(***************************************************************************)
Str(s) == [kind |-> "string", str |-> s, num |-> 0]
Num(n) == [kind |-> "number", str |-> <<>>, num |-> n]

Digits == <<"0", "1", "2", "3", "4", "5", "6", "7", "8", "9">>

\* String(n) of a non-negative integer
RECURSIVE NumToString(_)
NumToString(n) ==
    IF n < 10 THEN <<Digits[n + 1]>>
    ELSE NumToString(n \div 10) \o <<Digits[(n % 10) + 1]>>

\* String(content)
ToStringJS(content) ==
    IF content.kind = "number" THEN NumToString(content.num) ELSE content.str

\* s.replace(/c/g, rep) for a one-character pattern
RECURSIVE ReplaceAll(_, _, _)
ReplaceAll(s, c, rep) ==
    IF s = <<>> THEN <<>>
    ELSE (IF Head(s) = c THEN rep ELSE <<Head(s)>>) \o ReplaceAll(Tail(s), c, rep)

AMP == <<"&", "a", "m", "p", ";">>
LT  == <<"&", "l", "t", ";">>
GT  == <<"&", "g", "t", ";">>

\* an escaping that replaces the ampersand last
EscapeXmlAmpLast(s) ==
    ReplaceAll(ReplaceAll(ReplaceAll(s, "<", LT), ">", GT), "&", AMP)

\* safeContent: .replace(/&/g,'&amp;').replace(/</g,'&lt;').replace(/>/g,'&gt;')
EscapeXml(s) ==
    ReplaceAll(ReplaceAll(ReplaceAll(s, "&", AMP), "<", LT), ">", GT)

createCell(content, bold, align, gridSpan) ==
    [text     |-> EscapeXml(ToStringJS(content)),
     bold     |-> bold,
     align    |-> align,
     gridSpan |-> gridSpan]

\* the eight column labels, each label one symbol
headers ==
    << <<"No">>, <<"Name">>, <<"Model">>, <<"Unit">>,
       <<"Qty">>, <<"Price">>, <<"Amount">>, <<"Remark">> >>

TOTAL_LABEL == <<"Total:">>

HeaderRow == [h \in 1..Len(headers) |-> createCell(Str(headers[h]), TRUE, "center", 0)]

\* a data row numbered with the zero-based index
ItemRowZeroBased(item, index) ==
    << createCell(Num(index), FALSE, "center", 0),
       createCell(Str(item.name), FALSE, "center", 0),
       createCell(Str(item.model), FALSE, "center", 0),
       createCell(Str(item.unit), FALSE, "center", 0),
       createCell(Num(item.quantity), FALSE, "center", 0),
       createCell(Num(item.price), FALSE, "center", 0),
       createCell(Num(item.amount), FALSE, "center", 0),
       createCell(Str(item.remark), FALSE, "center", 0) >>

\* the body of items.forEach; index is zero-based
ItemRow(item, index) ==
    << createCell(Num(index + 1), FALSE, "center", 0),
       createCell(Str(item.name), FALSE, "center", 0),
       createCell(Str(item.model), FALSE, "center", 0),
       createCell(Str(item.unit), FALSE, "center", 0),
       createCell(Num(item.quantity), FALSE, "center", 0),
       createCell(Num(item.price), FALSE, "center", 0),
       createCell(Num(item.amount), FALSE, "center", 0),
       createCell(Str(item.remark), FALSE, "center", 0) >>

TotalRow(tot) ==
    << createCell(Str(TOTAL_LABEL), TRUE, "right", 6),
       createCell(Num(tot), TRUE, "center", 0),
       createCell(Str(<<>>), FALSE, "center", 0) >>

\* the rows of the w:tbl element, in the order they are appended
generateTableXml(its, tot) ==
    <<HeaderRow>>
    \o [i \in 1..Len(its) |-> ItemRow(its[i], i - 1)]
    \o <<TotalRow(tot)>>

\* the XML parser's reading of character data: the three entities are
\* decoded, any other ampersand is not well formed
RECURSIVE DecodeXml(_)
DecodeXml(s) ==
    IF s = <<>> THEN <<>>
    ELSE IF Head(s) # "&" THEN <<Head(s)>> \o DecodeXml(Tail(s))
    ELSE IF StartsAt(s, 1, AMP) THEN <<"&">> \o DecodeXml(SubSeq(s, Len(AMP) + 1, Len(s)))
    ELSE IF StartsAt(s, 1, LT) THEN <<"<">> \o DecodeXml(SubSeq(s, Len(LT) + 1, Len(s)))
    ELSE IF StartsAt(s, 1, GT) THEN <<">">> \o DecodeXml(SubSeq(s, Len(GT) + 1, Len(s)))
    ELSE <<"#malformed">> \o DecodeXml(Tail(s))

\* parser.parseFromString(wrappedTableXml): each cell's text content
ParseTable(rows) ==
    [r \in 1..Len(rows) |->
        [c \in 1..Len(rows[r]) |-> [rows[r][c] EXCEPT !.text = DecodeXml(@)]]]

(***************************************************************************)
(* Inputs of the table builder                                             *)
(***************************************************************************)
Chunks == { <<"&">>, <<"<">>, <<">">>, <<"a">>, <<";">>, AMP, LT, GT }

CellTextsIn == { Flatten(cs) : cs \in UNION { [1..n -> Chunks] : n \in 0..MaxChunks } }

Item(name, quantity, amount, remark) ==
    [name |-> name, model |-> <<"m">>, unit |-> <<"u">>,
     quantity |-> quantity, price |-> 5, amount |-> amount, remark |-> remark]

BasicItems ==
    { Item(n, q, a, r) :
        n \in {<<"a">>, <<"<", "&">>}, q \in {1, 2}, a \in {5, 10},
        r \in {<<>>, <<"r">>} }

ItemLists ==
    UNION { [1..n -> BasicItems] : n \in 0..MaxItems }
    \cup { <<Item(n, 1, 5, n)>> : n \in CellTextsIn }

Totals == {0, 5, 15}

ScanIdle ==
    /\ segs = <<>>
    /\ cut = 0
    /\ pkg = "ok"
    /\ docScan = Idle
    /\ xlsScan = Idle
    /\ repScan = [status |-> "idle", fields |-> <<>>, match |-> 0]

TableInit ==
    /\ RestIdle
    /\ ScanIdle
    /\ GenIdle
    /\ items \in ItemLists
    /\ total \in Totals
    /\ tableXml = [built |-> FALSE, rows |-> <<>>]
    /\ tableDom = [built |-> FALSE, rows |-> <<>>]

\* const tableXmlBody = generateTableXml(tableData.items, tableData.total)
BuildTable ==
    /\ ~tableXml.built
    /\ tableXml' = [built |-> TRUE, rows |-> generateTableXml(items, total)]
    /\ UNCHANGED <<items, total, tableDom, scanVars, genVars,
                   restVars>>

\* const tempDoc = parser.parseFromString(wrappedTableXml, "text/xml")
ParseFragment ==
    /\ tableXml.built
    /\ ~tableDom.built
    /\ tableDom' = [built |-> TRUE, rows |-> ParseTable(tableXml.rows)]
    /\ UNCHANGED <<items, total, tableXml, scanVars, genVars,
                   restVars>>

TableNext ==
    \/ BuildTable
    \/ ParseFragment

SpecTable == TableInit /\ [][TableNext]_vars

(***************************************************************************)
(* The document: word/document.xml as a tree                               *)
(*   body      = sequence of blocks                                        *)
(*   w:p       = [runs: the w:t text nodes of the paragraph]               *)
(*   w:tbl     = [cells: the paragraphs of its cells] (a table of the      *)
(*               template) or [rows: ...] (the generated fragment)         *)
(* A text node of the template is a sequence of literals and tags; a text  *)
(* node of the rendered part is a string.                                  *)
(***************************************************************************)
Lit(s) == [kind |-> "lit", s |-> s]
Tag(n) == [kind |-> "tag", s |-> n]

Para(runs) == [kind |-> "w:p", runs |-> runs, cells |-> <<>>, rows |-> <<>>]
Tbl(cells) == [kind |-> "w:tbl", runs |-> <<>>, cells |-> cells, rows |-> <<>>]

\* the w:tbl node parsed from the fragment
TableNode(rows) == [kind |-> "w:tbl", runs |-> <<>>, cells |-> <<>>, rows |-> rows]

FIELD_A == <<"A">>

SENTINEL_PREFIX == <<"___INSERT_TABLE_HERE_">>
SENTINEL_SUFFIX == <<"_", "_", "_">>

\* "___INSERT_TABLE_HERE_" + Math.floor(Math.random() * 100000) + "___"
Sentinel(n) == SENTINEL_PREFIX \o NumToString(n) \o SENTINEL_SUFFIX

\* the text of a template text node as the scan reads it
TokenText(tok) ==
    IF tok.kind = "tag" THEN OPEN_DELIM \o tok.s \o CLOSE_DELIM ELSE tok.s

NodeText(toks) == Flatten([k \in 1..Len(toks) |-> TokenText(toks[k])])

ParaText(p) == Flatten([r \in 1..Len(p.runs) |-> NodeText(p.runs[r])])

\* Mammoth.extractRawText: the text of every paragraph, each followed by a
\* blank line
BlockRawText(blk) ==
    IF blk.kind = "w:p" THEN ParaText(blk) \o <<"\n", "\n">>
    ELSE Flatten([c \in 1..Len(blk.cells) |-> ParaText(blk.cells[c]) \o <<"\n", "\n">>])

BodyRawText(body) == Flatten([b \in 1..Len(body) |-> BlockRawText(body[b])])

\* fields?.find(f => f.isTable): <<f>> or <<>>
RECURSIVE FindTableField(_)
FindTableField(fs) ==
    IF fs = <<>> THEN <<>>
    ELSE IF Head(fs).isTable THEN <<Head(fs)>>
    ELSE FindTableField(Tail(fs))

\* templateData = { ...data }; templateData[tableField.fieldName] = tablePlaceholder
TemplateData(data, tableField, placeholder) ==
    IF tableField = <<>> THEN data
    ELSE [n \in DOMAIN data \cup {tableField[1].fieldName} |->
            IF n = tableField[1].fieldName THEN placeholder ELSE data[n]]

\* the engine's value of a tag: the value of the key, "undefined" for a key
\* without a value
TagValue(td, n) ==
    IF n \in DOMAIN td /\ td[n] # NoValue THEN td[n] ELSE <<"undefined">>

RenderNode(toks, td) ==
    Flatten([k \in 1..Len(toks) |->
        IF toks[k].kind = "tag" THEN TagValue(td, toks[k].s) ELSE toks[k].s])

RenderPara(p, td) ==
    [p EXCEPT !.runs = [r \in 1..Len(p.runs) |-> RenderNode(p.runs[r], td)]]

\* doc.render(templateData) on the body
RenderBody(body, td) ==
    [b \in 1..Len(body) |->
        IF body[b].kind = "w:p" THEN RenderPara(body[b], td)
        ELSE [body[b] EXCEPT !.cells =
                 [c \in 1..Len(body[b].cells) |-> RenderPara(body[b].cells[c], td)]]]

\* xmlDoc.getElementsByTagName("w:t"): the text nodes in document order, each
\* as <<block, cell (0 for a paragraph of the body), run>>
BlockTextNodes(body, b) ==
    IF body[b].kind = "w:p"
    THEN [r \in 1..Len(body[b].runs) |-> <<b, 0, r>>]
    ELSE Flatten([c \in 1..Len(body[b].cells) |->
             [r \in 1..Len(body[b].cells[c].runs) |-> <<b, c, r>>]])

TextNodes(body) == Flatten([b \in 1..Len(body) |-> BlockTextNodes(body, b)])

\* textNodes[i].textContent
TextContent(body, loc) ==
    IF loc[2] = 0 THEN body[loc[1]].runs[loc[3]]
    ELSE body[loc[1]].cells[loc[2]].runs[loc[3]]

\* a search that keeps the last matching text node
RECURSIVE FindTargetLast(_, _, _)
FindTargetLast(body, nodes, placeholder) ==
    IF nodes = <<>> THEN <<>>
    ELSE IF TextContent(body, nodes[Len(nodes)]) = placeholder
         THEN <<nodes[Len(nodes)][1], nodes[Len(nodes)][2]>>
    ELSE FindTargetLast(body, SubSeq(nodes, 1, Len(nodes) - 1), placeholder)

\* the for loop over textNodes: the w:p ancestor of the first text node whose
\* content is the placeholder, as <<block, cell>>; <<>> for null
RECURSIVE FindTarget(_, _, _)
FindTarget(body, nodes, placeholder) ==
    IF nodes = <<>> THEN <<>>
    ELSE IF TextContent(body, Head(nodes)) = placeholder
         THEN <<Head(nodes)[1], Head(nodes)[2]>>
    ELSE FindTarget(body, Tail(nodes), placeholder)

\* targetParagraph.parentNode.replaceChild(importedNode, targetParagraph)
ReplaceChild(body, target, node) ==
    IF target[2] = 0 THEN [body EXCEPT ![target[1]] = node]
    ELSE [body EXCEPT ![target[1]].cells[target[2]] = node]

OTHER_PARTS == <<"word/styles.xml">>

\* outZip: the primary part and the parts that pass through
Package(body) == [document |-> body, others |-> OTHER_PARTS]

\* a handler that warns only after a successful splice
WarnsOn(searched, target) == searched /\ target # <<>>

\* console.warn is reached in the else branch of if (targetParagraph)
Warns(searched, target) == searched /\ target = <<>>

\* a handler that serializes the tree whether or not it was changed
StagesSerializeAlways(searched, spliced) ==
    <<"Idle">>
    \o (IF searched
        THEN <<"Parsed">>
             \o (IF spliced THEN <<"Spliced">> ELSE <<"SkippedNoAnchor">>)
             \o <<"Serialized">>
        ELSE <<>>)
    \o <<"Generated">>

\* the stages reader.onload goes through once the render is done: "Parsed"
\* is parser.parseFromString(docXmlContent), "Spliced" is replaceChild,
\* "SkippedNoAnchor" the branch of console.warn, "Serialized" is
\* serializeToString with outZip.file, "Generated" is outZip.generate
Stages(searched, spliced) ==
    <<"Idle">>
    \o (IF searched
        THEN <<"Parsed">>
             \o (IF spliced THEN <<"Spliced", "Serialized">>
                 ELSE <<"SkippedNoAnchor">>)
        ELSE <<>>)
    \o <<"Generated">>

\* reader.onload for a draw r of Math.random: what it settles the promise
\* with, and what it computed on the way
OnLoad(r) ==
    LET placeholder == Sentinel(r)
        tableField  == FindTableField(fields)
        td          == TemplateData(formData, tableField, placeholder)
        rendered    == RenderBody(template, td)
        searched    == tableField # <<>> /\ tableData.present
        target      == IF searched
                       THEN FindTarget(rendered, TextNodes(rendered), placeholder)
                       ELSE <<>>
        tableNode   == TableNode(ParseTable(generateTableXml(tableData.items,
                                                             tableData.total)))
        final       == IF target # <<>>
                       THEN ReplaceChild(rendered, target, tableNode)
                       ELSE rendered
    IN IF file = "empty" THEN
           [promise |-> [status |-> "rejected", blob |-> <<>>, error |-> "message"],
            run |-> [NoRun EXCEPT !.trace = <<"Idle", "ParseError">>]]
       ELSE IF file = "corrupt" THEN
           [promise |-> [status |-> "rejected", blob |-> <<>>, error |-> "message"],
            run |-> [NoRun EXCEPT !.placeholder = placeholder,
                                  !.trace = <<"Idle", "ParseError">>]]
       ELSE IF file = "badTemplate" THEN
           [promise |-> [status |-> "rejected", blob |-> <<>>, error |-> "properties"],
            run |-> [NoRun EXCEPT !.placeholder = placeholder,
                                  !.trace = <<"Idle", "TemplateError">>]]
       ELSE
           [promise |-> [status |-> "resolved", blob |-> Package(final), error |-> "none"],
            run |-> [placeholder |-> placeholder,
                     rendered    |-> rendered,
                     searched    |-> searched,
                     spliced     |-> target # <<>>,
                     warned      |-> Warns(searched, target),
                     trace       |-> Stages(searched, target # <<>>)]]

(***************************************************************************)
(* Inputs of a generation                                                  *)
(***************************************************************************)
TemplateParas ==
    { Para(<< <<Tag(FIELD_A)>> >>),
      Para(<< <<Tag(TABLE_KEYWORD)>> >>),
      Para(<< <<Lit(<<"x">>), Tag(TABLE_KEYWORD)>> >>),
      Para(<< <<Lit(<<"x">>)>>, <<Tag(TABLE_KEYWORD)>> >>),
      Para(<< <<Lit(Sentinel(0))>> >>) }

TemplateBlocks ==
    TemplateParas
    \cup { Tbl(<< Para(<< <<Lit(<<"x">>)>> >>), Para(<< <<Tag(TABLE_KEYWORD)>> >>) >>),
           Tbl(<< Para(<< <<Tag(FIELD_A)>> >>) >>) }

Templates == UNION { [1..n -> TemplateBlocks] : n \in 1..MaxBlocks }

Values == { NoValue, <<"x">>, Sentinel(0) }

TableDatas ==
    { NoTableData,
      [present |-> TRUE, items |-> <<>>, total |-> 0],
      [present |-> TRUE, items |-> <<Item(<<"a">>, 1, 5, <<>>)>>, total |-> 5] }

EARLIER_ARTIFACT == Package(<<Para(<< <<"earlier">> >>)>>)

\* the App on the last step of the wizard, with the fields the scan of the
\* uploaded file returned
GenInit ==
    /\ RestIdle
    /\ ScanIdle
    /\ TableIdle
    /\ file \in {"ok", "empty", "corrupt", "badTemplate", "unreadable"}
    /\ template \in Templates
    /\ fields = ScanText(BodyRawText(template))
    /\ fields # <<>>
    /\ currentFieldIndex = Len(fields) - 1
    /\ uploads = 0
    /\ formData \in [{FIELD_A} -> Values]
    /\ tableData \in TableDatas
    /\ step = "WIZARD"
    /\ isProcessing = FALSE
    /\ appError = "none"
    /\ downloads \in {<<>>, <<EARLIER_ARTIFACT>>}
    /\ reader = "idle"
    /\ gen = NoPromise
    /\ settled = 0
    /\ generations = 0
    /\ run = NoRun

\* items.reduce((sum, item) => sum + item.amount, 0)
RECURSIVE SumAmounts(_)
SumAmounts(its) ==
    IF its = <<>> THEN 0 ELSE Head(its).amount + SumAmounts(Tail(its))

\* the row a new ProductTable starts with
DEFAULT_ITEM ==
    [name |-> <<>>, model |-> <<>>, unit |-> <<"u">>,
     quantity |-> 1, price |-> 0, amount |-> 0, remark |-> <<>>]

\* what the App holds as tableData once the wizard shows field idx of fs:
\* on a table field ProductTable mounts with initialData = tableData?.items
\* and its effect calls onSave(items, newTotal); a render that reads past
\* the end of fs throws before anything mounts
ProductTableMount(fs, idx, td) ==
    IF idx < Len(fs) /\ fs[idx + 1].isTable
    THEN LET its == IF td.present THEN td.items ELSE <<DEFAULT_ITEM>>
         IN [present |-> TRUE, items |-> its, total |-> SumAmounts(its)]
    ELSE td

\* a wizard whose buttons stay on screen while a generation runs
WizardShownWhileGenerating ==
    /\ step \in {"WIZARD", "GENERATING"}
    /\ currentFieldIndex < Len(fields)

\* step === AppStep.WIZARD && renderWizardStep(), which reads
\* fields[currentFieldIndex].isTable: the wizard's controls are on screen
WizardShown ==
    /\ step = "WIZARD"
    /\ currentFieldIndex < Len(fields)

\* handleNext. Before the last field: the next field. On the last field:
\* setStep(GENERATING), then handleGenerate up to its await:
\* setIsProcessing(true) and generateFilledDocument up to
\* reader.readAsArrayBuffer(file), with a new promise and a new reader
handleNext ==
    /\ WizardShown
    /\ IF currentFieldIndex < Len(fields) - 1
       THEN /\ currentFieldIndex' = currentFieldIndex + 1
            /\ tableData' = ProductTableMount(fields, currentFieldIndex + 1, tableData)
            /\ UNCHANGED <<generations, step, isProcessing, gen, reader,
                           settled, run>>
       ELSE /\ generations < MaxGenerations
            /\ generations' = generations + 1
            /\ step' = "GENERATING"
            /\ isProcessing' = TRUE
            /\ gen' = [status |-> "pending", blob |-> <<>>, error |-> "none"]
            /\ reader' = "loading"
            /\ settled' = 0
            /\ run' = NoRun
            /\ UNCHANGED <<currentFieldIndex, tableData>>
    /\ UNCHANGED <<file, template, fields, formData, appError, downloads,
                   uploads, scanVars, tableVars,
                   restVars>>

\* the load event of the reader: reader.onload runs to its end
ReaderLoad ==
    /\ reader = "loading"
    /\ file # "unreadable"
    /\ \E r \in 0..MaxRand :
          /\ gen' = OnLoad(r).promise
          /\ run' = OnLoad(r).run
    /\ reader' = "done"
    /\ settled' = settled + 1
    /\ UNCHANGED <<file, template, fields, formData, tableData, step,
                   isProcessing, appError, downloads, generations, currentFieldIndex, uploads,
                   scanVars, tableVars,
                   restVars>>

\* the error event of the reader: generateFilledDocument sets no onerror
ReaderError ==
    /\ reader = "loading"
    /\ file = "unreadable"
    /\ reader' = "error"
    /\ UNCHANGED <<file, template, fields, formData, tableData, step,
                   isProcessing, appError, downloads, gen, settled, run,
                   generations, currentFieldIndex, uploads,
                   scanVars, tableVars,
                   restVars>>

\* handleGenerate after its await, when the promise resolved: the download,
\* then finally
GenerateResolved ==
    /\ isProcessing
    /\ gen.status = "resolved"
    /\ step' = "COMPLETED"
    /\ downloads' = Append(downloads, gen.blob)
    /\ isProcessing' = FALSE
    /\ UNCHANGED <<file, template, fields, formData, tableData, appError,
                   reader, gen, settled, run, generations, currentFieldIndex, uploads,
                   scanVars, tableVars,
                   restVars>>

\* a catch that reports the error and goes on to the completed step
GenerateRejectedAdvances ==
    /\ isProcessing
    /\ gen.status = "rejected"
    /\ appError' = gen.error
    /\ step' = "COMPLETED"
    /\ isProcessing' = FALSE
    /\ UNCHANGED <<file, template, fields, formData, tableData, downloads,
                   reader, gen, settled, run, generations, currentFieldIndex,
                   uploads, scanVars, tableVars, restVars>>

\* handleGenerate after its await, when the promise rejected: catch, finally
GenerateRejected ==
    /\ isProcessing
    /\ gen.status = "rejected"
    /\ appError' = gen.error
    /\ step' = "WIZARD"
    /\ isProcessing' = FALSE
    /\ UNCHANGED <<file, template, fields, formData, tableData, downloads,
                   reader, gen, settled, run, generations, currentFieldIndex, uploads,
                   scanVars, tableVars,
                   restVars>>

GenNext ==
    \/ handleNext
    \/ ReaderLoad
    \/ ReaderError
    \/ GenerateResolved
    \/ GenerateRejected

SpecGen == GenInit /\ [][GenNext]_vars

\* what the event loop runs without the user: the reader's event, and the
\* continuation of an await once its promise has settled
EventLoop ==
    \/ ReaderLoad
    \/ ReaderError
    \/ GenerateResolved
    \/ GenerateRejected

\* the generations of one-block documents: whether a generation settles
\* does not depend on the size of the document
GenInitOneBlock ==
    /\ GenInit
    /\ Len(template) = 1

FairSpecGen == GenInitOneBlock /\ [][GenNext]_vars /\ WF_vars(EventLoop)

(***************************************************************************)
(* The wizard: upload, scan, the fields one by one, generation              *)
(***************************************************************************)
\* the files the user picks: the package as the file reader and the
\* libraries find it, and the body of its primary part
AppFiles ==
    { [kind |-> "ok", template |-> <<Para(<< <<Tag(FIELD_A)>> >>)>>],
      [kind |-> "ok", template |-> <<Para(<< <<Tag(FIELD_A)>> >>),
                                     Para(<< <<Tag(TABLE_KEYWORD)>> >>)>>],
      [kind |-> "ok", template |-> <<Para(<< <<Lit(<<"x">>), Tag(TABLE_KEYWORD)>> >>)>>],
      [kind |-> "ok", template |-> <<Para(<< <<Lit(Sentinel(0))>> >>)>>],
      [kind |-> "badTemplate", template |-> <<Para(<< <<Tag(FIELD_A)>> >>)>>],
      [kind |-> "corrupt", template |-> <<>>],
      [kind |-> "empty", template |-> <<>>],
      [kind |-> "unreadable", template |-> <<>>] }

AppValues == { <<"x">>, Sentinel(0) }

\* the three messages of handleFileUpload
NO_MARKERS   == "noMarkers"
PARSE_FAILED == "parseFailed"
PARSE_ERROR  == "parseError"

\* the App as useState leaves it
AppInit ==
    /\ RestIdle
    /\ ScanIdle
    /\ TableIdle
    /\ file = "ok"
    /\ template = <<>>
    /\ fields = <<>>
    /\ currentFieldIndex = 0
    /\ formData = [n \in {FIELD_A} |-> NoValue]
    /\ tableData = NoTableData
    /\ step = "UPLOAD"
    /\ isProcessing = FALSE
    /\ appError = "none"
    /\ downloads = <<>>
    /\ reader = "idle"
    /\ gen = NoPromise
    /\ settled = 0
    /\ generations = 0
    /\ uploads = 0
    /\ run = NoRun

\* handleFileUpload up to its await; the file input is part of the upload
\* step only
handleFileUpload ==
    /\ step = "UPLOAD"
    /\ uploads < MaxUploads
    /\ uploads' = uploads + 1
    /\ \E f \in AppFiles :
          /\ file' = f.kind
          /\ template' = f.template
    /\ step' = "ANALYZING"
    /\ appError' = "none"
    /\ UNCHANGED <<fields, currentFieldIndex, formData, tableData,
                   isProcessing, downloads, reader, gen, settled,
                   generations, run, scanVars, tableVars,
                   restVars>>

\* what extractFieldsFromDoc settles with for the file picked
UploadScan ==
    IF file \in {"ok", "badTemplate"}
    THEN Resolved(ScanText(BodyRawText(template)))
    ELSE Rejected

\* handleFileUpload after its await, when the scan resolved
UploadScanned ==
    /\ step = "ANALYZING"
    /\ UploadScan.status = "resolved"
    /\ IF UploadScan.fields = <<>>
       THEN /\ appError' = NO_MARKERS
            /\ step' = "UPLOAD"
            /\ UNCHANGED <<fields, tableData>>
       ELSE /\ fields' = UploadScan.fields
            /\ step' = "WIZARD"
            /\ tableData' = ProductTableMount(UploadScan.fields,
                                              currentFieldIndex, tableData)
            /\ UNCHANGED appError
    /\ UNCHANGED <<file, template, currentFieldIndex, formData, isProcessing,
                   downloads, reader, gen, settled, generations, uploads, run,
                   scanVars, tableVars,
                   restVars>>

\* handleFileUpload after its await, when the scan rejected: a reader error
\* carries no message, an exception of the extraction does
UploadFailed ==
    /\ step = "ANALYZING"
    /\ UploadScan.status = "rejected"
    /\ appError' = IF file = "unreadable" THEN PARSE_FAILED ELSE PARSE_ERROR
    /\ step' = "UPLOAD"
    /\ UNCHANGED <<file, template, fields, currentFieldIndex, formData,
                   tableData, isProcessing, downloads, reader, gen, settled,
                   generations, uploads, run, scanVars, tableVars,
                   restVars>>

\* handleBack; the button is disabled on the first field
handleBack ==
    /\ WizardShown
    /\ currentFieldIndex > 0
    /\ currentFieldIndex' = currentFieldIndex - 1
    /\ tableData' = ProductTableMount(fields, currentFieldIndex - 1, tableData)
    /\ UNCHANGED <<file, template, fields, formData, step, isProcessing,
                   appError, downloads, reader, gen, settled, generations,
                   uploads, run, scanVars, tableVars,
                   restVars>>

\* handleInputChange of the text area of a scalar field
handleInputChange ==
    /\ WizardShown
    /\ ~fields[currentFieldIndex + 1].isTable
    /\ \E v \in AppValues :
          formData' = [n \in DOMAIN formData \cup {fields[currentFieldIndex + 1].fieldName} |->
                          IF n = fields[currentFieldIndex + 1].fieldName
                          THEN v ELSE formData[n]]
    /\ UNCHANGED <<file, template, fields, currentFieldIndex, tableData, step,
                   isProcessing, appError, downloads, reader, gen, settled,
                   generations, uploads, run, scanVars, tableVars,
                   restVars>>

\* onSave of the ProductTable after an edit of its rows
onSave ==
    /\ WizardShown
    /\ fields[currentFieldIndex + 1].isTable
    /\ \E its \in { <<Item(<<"a">>, 1, 5, <<>>)>> } :
          tableData' = [present |-> TRUE, items |-> its,
                        total |-> SumAmounts(its)]
    /\ UNCHANGED <<file, template, fields, currentFieldIndex, formData, step,
                   isProcessing, appError, downloads, reader, gen, settled,
                   generations, uploads, run, scanVars, tableVars,
                   restVars>>

\* the file behind the File object is moved or changed while the wizard is
\* open: a later readAsArrayBuffer of it fails
FileLost ==
    /\ step = "WIZARD"
    /\ file = "ok"
    /\ file' = "unreadable"
    /\ UNCHANGED <<template, fields, currentFieldIndex, formData, tableData,
                   step, isProcessing, appError, downloads, reader, gen,
                   settled, generations, uploads, run, scanVars, tableVars,
                   restVars>>

\* the button of the completed step: setStep(AppStep.UPLOAD)
processNewFile ==
    /\ step = "COMPLETED"
    /\ step' = "UPLOAD"
    /\ UNCHANGED <<file, template, fields, currentFieldIndex, formData,
                   tableData, isProcessing, appError, downloads, reader, gen,
                   settled, generations, uploads, run, scanVars, tableVars,
                   restVars>>

AppNext ==
    \/ handleFileUpload
    \/ UploadScanned
    \/ UploadFailed
    \/ handleNext
    \/ handleBack
    \/ handleInputChange
    \/ onSave
    \/ FileLost
    \/ ReaderLoad
    \/ ReaderError
    \/ GenerateResolved
    \/ GenerateRejected
    \/ processNewFile

SpecApp == AppInit /\ [][AppNext]_vars

(***************************************************************************)
(* The spreadsheet generation (generateFilledExcel)                        *)
(***************************************************************************)
FIELD_B == <<"B">>

TagText(content) == OPEN_DELIM \o content \o CLOSE_DELIM

\* a cell without a value
NULL_CELL == [kind |-> "null", str |-> <<>>, num |-> 0]

\* GetSubstitution for a string pattern: $$, $&, $` and $' of the
\* replacement are expanded, everything else is copied
RECURSIVE GetSubstitution(_, _, _, _)
GetSubstitution(rep, matched, before, after) ==
    IF rep = <<>> THEN <<>>
    ELSE IF Head(rep) = "$" /\ Len(rep) >= 2 /\ rep[2] \in {"$", "&", "`", "'"}
    THEN (CASE rep[2] = "$" -> <<"$">>
            [] rep[2] = "&" -> matched
            [] rep[2] = "`" -> before
            [] rep[2] = "'" -> after)
         \o GetSubstitution(SubSeq(rep, 3, Len(rep)), matched, before, after)
    ELSE <<Head(rep)>> \o GetSubstitution(Tail(rep), matched, before, after)

\* text.replace(pat, rep) with a string pattern: the first occurrence of pat
\* in text
ReplaceFirst(text, pat, rep) ==
    LET i == IndexOfFrom(text, pat, 1) IN
    IF i = 0 THEN text
    ELSE LET before == SubSeq(text, 1, i - 1)
             after  == SubSeq(text, i + Len(pat), Len(text))
         IN before \o GetSubstitution(rep, pat, before, after) \o after

\* for (const match of matches) { ... text = text.replace(match[0], data[key]) }
\* where matches were taken from the text of the cell before the loop
RECURSIVE ReplaceMatches(_, _, _)
ReplaceMatches(text, matches, data) ==
    IF matches = <<>> THEN [text |-> text, modified |-> FALSE]
    ELSE LET key  == Trim(Head(matches).content)
             hit  == key \in DOMAIN data /\ data[key] # NoValue
             next == IF hit THEN ReplaceFirst(text, Head(matches).tag, data[key])
                     ELSE text
             rest == ReplaceMatches(next, Tail(matches), data)
         IN [text |-> rest.text, modified |-> hit \/ rest.modified]

\* the body of row.eachCell: the cell afterwards, and whether it held the
\* table placeholder
FillCell(cell, data, tableField) ==
    IF cell.kind # "string" THEN [cell |-> cell, anchor |-> FALSE]
    ELSE LET text   == cell.str
             anchor == tableField # <<>>
                         /\ Includes(text, tableField[1].originalTag)
             r      == ReplaceMatches(text, PLACEHOLDER_REGEX(text), data)
         IN [cell   |-> IF r.modified THEN Str(r.text)
                        ELSE IF anchor THEN NULL_CELL ELSE cell,
             anchor |-> anchor]

FillRow(row, data, tableField) ==
    [c \in 1..Len(row) |-> FillCell(row[c], data, tableField).cell]

\* tableInsertionRow after worksheet.eachRow: the last row with a cell that
\* holds the table placeholder, 0 for the -1 of the code
TableInsertionRow(rows, data, tableField) ==
    LET hits == { k \in 1..Len(rows) :
                    \E c \in 1..Len(rows[k]) :
                        FillCell(rows[k][c], data, tableField).anchor }
    IN IF hits = {} THEN 0 ELSE CHOOSE k \in hits : \A j \in hits : j <= k

\* the label of the total row, of the sheet and of the export
XLS_TOTAL_LABEL == <<"Total">>

ExcelHeaderRow == [h \in 1..Len(headers) |-> Str(headers[h])]

ExcelItemRow(item, idx) ==
    << Num(idx + 1), Str(item.name), Str(item.model), Str(item.unit),
       Num(item.quantity), Num(item.price), Num(item.amount), Str(item.remark) >>

ExcelTotalRow(tot) ==
    << Str(XLS_TOTAL_LABEL), Str(<<>>), Str(<<>>), Str(<<>>), Str(<<>>),
       Str(<<>>), Num(tot), Str(<<>>) >>

\* worksheet.insertRow(pos, values): the rows from pos on move down by one
InsertRow(rows, pos, row) ==
    SubSeq(rows, 1, pos - 1) \o <<row>> \o SubSeq(rows, pos, Len(rows))

\* a header that is inserted above the placeholder row
InsertHeaderRow(rows, r) == InsertRow(rows, r, ExcelHeaderRow)

\* headerRow = worksheet.getRow(tableInsertionRow); headerRow.values = headers
SetHeaderRow(rows, r) == [rows EXCEPT ![r] = ExcelHeaderRow]

\* tableData.items.forEach with currentRowIdx
RECURSIVE InsertItemRows(_, _, _, _)
InsertItemRows(rows, its, idx, currentRowIdx) ==
    IF idx >= Len(its) THEN rows
    ELSE InsertItemRows(InsertRow(rows, currentRowIdx, ExcelItemRow(its[idx + 1], idx)),
                        its, idx + 1, currentRowIdx + 1)

\* the body of workbook.eachSheet
FillSheet(rows, data, td, fs) ==
    LET tableField == FindTableField(fs)
        filled     == [k \in 1..Len(rows) |-> FillRow(rows[k], data, tableField)]
        r          == TableInsertionRow(rows, data, tableField)
    IN IF r # 0 /\ td.present
       THEN LET withHeader == SetHeaderRow(filled, r)
                withItems  == InsertItemRows(withHeader, td.items, 0, r + 1)
            IN InsertRow(withItems, r + 1 + Len(td.items), ExcelTotalRow(td.total))
       ELSE filled

(***************************************************************************)
(* Inputs of a spreadsheet generation                                      *)
(***************************************************************************)
MaxRows == 3

XlsRows ==
    { <<>>,
      <<Num(7)>>,
      <<Str(TagText(FIELD_A) \o TagText(FIELD_B))>>,
      <<Str(<<"x">>), Str(TagText(FIELD_A))>>,
      <<Str(TagText(TABLE_KEYWORD))>>,
      <<Str(TagText(TABLE_KEYWORD)), Str(<<"x">>)>> }

Sheets == UNION { [1..n -> XlsRows] : n \in 1..MaxRows }

XlsDatas ==
    { [n \in {FIELD_A, FIELD_B} |-> IF n = FIELD_A THEN a ELSE b] :
        a \in { NoValue, <<"y">>, TagText(FIELD_B), <<"$", "&">> },
        b \in { NoValue, <<"y">> } }

XlsTableDatas ==
    { NoTableData }
    \cup { [present |-> TRUE,
            items   |-> [i \in 1..n |-> Item(<<"a">>, i, 5 * i, <<>>)],
            total   |-> 5 * ((n * (n + 1)) \div 2)] : n \in 0..MaxItems }

\* the texts of the string cells in row / cell order
RECURSIVE StringCellTexts(_)
StringCellTexts(rows) ==
    IF rows = <<>> THEN <<>>
    ELSE LET row == Head(rows) IN
         Flatten([c \in 1..Len(row) |->
                    IF row[c].kind = "string" THEN <<row[c].str>> ELSE <<>>])
         \o StringCellTexts(Tail(rows))

ExcelInit ==
    /\ ScanIdle
    /\ TableIdle
    /\ GenIdle
    /\ CsvIdle
    /\ EditIdle
    /\ xlsFile \in {"ok", "invalid"}
    /\ sheet \in Sheets
    /\ xlsData \in XlsDatas
    /\ xlsTableData \in XlsTableDatas
    /\ xlsFields = ScanCells(StringCellTexts(sheet))
    /\ xlsOut = [status |-> "idle", rows |-> <<>>]

\* generateFilledExcel: workbook.xlsx.load throws on a file that is no
\* workbook, otherwise every sheet is filled and written
generateFilledExcel ==
    /\ xlsOut.status = "idle"
    /\ xlsOut' = IF xlsFile = "invalid"
                 THEN [status |-> "rejected", rows |-> <<>>]
                 ELSE [status |-> "resolved",
                       rows   |-> FillSheet(sheet, xlsData, xlsTableData, xlsFields)]
    /\ UNCHANGED <<xlsFile, sheet, xlsData, xlsTableData, xlsFields, scanVars,
                   tableVars, genVars, csvItems, csvTotal, csvBlob, edItems,
                   edTotal, edSaved>>

SpecExcel == ExcelInit /\ [][generateFilledExcel]_vars

(***************************************************************************)
(* The table editor (ProductTable)                                         *)
(***************************************************************************)
MaxEdItems == 3

\* the useEffect on [items]: setTotal(newTotal); onSave(items, newTotal)
EffectSaved(its) ==
    [present |-> TRUE, items |-> its, total |-> SumAmounts(its)]

\* the editor at its first render: items from initialData or the default
\* row, total 0, the effect not yet run
EditInit ==
    /\ ScanIdle
    /\ TableIdle
    /\ GenIdle
    /\ ExcelIdle
    /\ CsvIdle
    /\ edItems \in { <<DEFAULT_ITEM>>, <<Item(<<"a">>, 1, 5, <<>>)>> }
    /\ edTotal = 0
    /\ edSaved = NoTableData

\* the effect after the first render
ProductTableMounted ==
    /\ ~edSaved.present
    /\ edTotal' = SumAmounts(edItems)
    /\ edSaved' = EffectSaved(edItems)
    /\ UNCHANGED <<edItems, scanVars, tableVars, genVars, xlsFile, sheet,
                   xlsData, xlsTableData, xlsFields, xlsOut, csvItems,
                   csvTotal, csvBlob>>

\* addItem, then the effect
addItem ==
    /\ edSaved.present
    /\ Len(edItems) < MaxEdItems
    /\ edItems' = Append(edItems, DEFAULT_ITEM)
    /\ edTotal' = SumAmounts(edItems')
    /\ edSaved' = EffectSaved(edItems')
    /\ UNCHANGED <<scanVars, tableVars, genVars, xlsFile, sheet, xlsData,
                   xlsTableData, xlsFields, xlsOut, csvItems, csvTotal,
                   csvBlob>>

\* removeItem of row i, then the effect; the last row is never removed
removeItem ==
    /\ edSaved.present
    /\ Len(edItems) # 1
    /\ \E i \in 1..Len(edItems) :
          edItems' = SubSeq(edItems, 1, i - 1) \o SubSeq(edItems, i + 1, Len(edItems))
    /\ edTotal' = SumAmounts(edItems')
    /\ edSaved' = EffectSaved(edItems')
    /\ UNCHANGED <<scanVars, tableVars, genVars, xlsFile, sheet, xlsData,
                   xlsTableData, xlsFields, xlsOut, csvItems, csvTotal,
                   csvBlob>>

\* handleInputChange of a text field of row i, then the effect
editText ==
    /\ edSaved.present
    /\ \E i \in 1..Len(edItems), v \in {<<>>, <<"a">>} :
          \/ edItems' = [edItems EXCEPT ![i].name = v]
          \/ edItems' = [edItems EXCEPT ![i].remark = v]
    /\ edTotal' = SumAmounts(edItems')
    /\ edSaved' = EffectSaved(edItems')
    /\ UNCHANGED <<scanVars, tableVars, genVars, xlsFile, sheet, xlsData,
                   xlsTableData, xlsFields, xlsOut, csvItems, csvTotal,
                   csvBlob>>

\* handleInputChange of quantity or price of row i: the amount is
\* recomputed as Number((qty * price).toFixed(2)), which on whole quantities
\* and prices is qty * price; then the effect
editNumber ==
    /\ edSaved.present
    /\ \E i \in 1..Len(edItems) :
          \/ \E q \in {0, 1, 2} :
                edItems' = [edItems EXCEPT ![i].quantity = q,
                              ![i].amount = q * edItems[i].price]
          \/ \E p \in {0, 5} :
                edItems' = [edItems EXCEPT ![i].price = p,
                              ![i].amount = edItems[i].quantity * p]
    /\ edTotal' = SumAmounts(edItems')
    /\ edSaved' = EffectSaved(edItems')
    /\ UNCHANGED <<scanVars, tableVars, genVars, xlsFile, sheet, xlsData,
                   xlsTableData, xlsFields, xlsOut, csvItems, csvTotal,
                   csvBlob>>

EditNext ==
    \/ ProductTableMounted
    \/ addItem
    \/ removeItem
    \/ editText
    \/ editNumber

SpecEdit == EditInit /\ [][EditNext]_vars

(***************************************************************************)
(* The table export (generateExcelTable)                                   *)
(***************************************************************************)
\* Array.prototype.join: the strings of the elements with sep between them
RECURSIVE Join(_, _)
Join(ss, sep) ==
    IF ss = <<>> THEN <<>>
    ELSE IF Len(ss) = 1 THEN Head(ss)
    ELSE Head(ss) \o sep \o Join(Tail(ss), sep)

\* the byte order mark U+FEFF, one symbol
BOM == <<"BOM">>

\* row.join(','): String of every element, no quoting
CsvLine(row) == Join([c \in 1..Len(row) |-> ToStringJS(row[c])], <<",">>)

\* a total row with the label in the first column
CsvTotalRowLabelFirst(tot) ==
    << Str(XLS_TOTAL_LABEL), Str(<<>>), Str(<<>>), Str(<<>>), Str(<<>>),
       Str(<<>>), Num(tot), Str(<<>>) >>

\* rows.push(['', '', '', '', '', <label>, total, ''])
CsvTotalRow(tot) ==
    << Str(<<>>), Str(<<>>), Str(<<>>), Str(<<>>), Str(<<>>),
       Str(XLS_TOTAL_LABEL), Num(tot), Str(<<>>) >>

\* the text of the Blob: header and rows hold what the header and the item
\* rows of the sheet hold
generateExcelTableText(its, tot) ==
    LET rows == [i \in 1..Len(its) |-> ExcelItemRow(its[i], i - 1)]
                \o <<CsvTotalRow(tot)>>
        csvContent == Join(<<CsvLine(ExcelHeaderRow)>>
                           \o [r \in 1..Len(rows) |-> CsvLine(rows[r])],
                           <<"\n">>)
    IN BOM \o csvContent

CsvNames == { <<"a">>, <<"a", ",", "b">>, <<"a", "\n", "b">> }

CsvBasicItems ==
    { Item(n, q, 5 * q, r) :
        n \in CsvNames, q \in {1, 12}, r \in {<<>>, <<",">>} }

CsvItemLists == UNION { [1..n -> CsvBasicItems] : n \in 0..MaxItems }

CsvInit ==
    /\ ScanIdle
    /\ TableIdle
    /\ GenIdle
    /\ ExcelIdle
    /\ EditIdle
    /\ csvItems \in CsvItemLists
    /\ csvTotal \in Totals
    /\ csvBlob = [built |-> FALSE, text |-> <<>>]

\* downloadExcel: generateExcelTable(tableData.items, tableData.total)
generateExcelTable ==
    /\ ~csvBlob.built
    /\ csvBlob' = [built |-> TRUE, text |-> generateExcelTableText(csvItems, csvTotal)]
    /\ UNCHANGED <<csvItems, csvTotal, scanVars, tableVars, genVars, xlsFile,
                   sheet, xlsData, xlsTableData, xlsFields, xlsOut, edItems,
                   edTotal, edSaved>>

SpecCsv == CsvInit /\ [][generateExcelTable]_vars

(***************************************************************************)
(* Claims about the scan                                                   *)
(***************************************************************************)
DocMatches == PLACEHOLDER_REGEX(RawText)
CellMatches == PLACEHOLDER_REGEX(CellTexts[1]) \o PLACEHOLDER_REGEX(CellTexts[2])

Occurs(ms, name) == \E k \in 1..Len(ms) : Trim(ms[k].content) = name

FirstOccurrence(ms, name) ==
    CHOOSE k \in 1..Len(ms) :
        /\ Trim(ms[k].content) = name
        /\ \A h \in 1..(k - 1) : Trim(ms[h].content) # name

ScalarsBeforeTables(fs) ==
    \A i, j \in 1..Len(fs) : (~fs[i].isTable /\ fs[j].isTable) => i < j

FirstOccurrenceOrder(fs, ms) ==
    /\ \A i \in 1..Len(fs) : Occurs(ms, fs[i].fieldName)
    /\ \A i, j \in 1..Len(fs) :
          (i < j /\ fs[i].isTable = fs[j].isTable)
             => FirstOccurrence(ms, fs[i].fieldName)
                  < FirstOccurrence(ms, fs[j].fieldName)

\* C1: in the list a scan returns, every scalar field precedes every table
\* field, and within each class the fields are in the order of their first
\* occurrence in the text, for the document scan and the spreadsheet scan.
C1_ScalarsFirstStable ==
    /\ docScan.status = "resolved" =>
          /\ ScalarsBeforeTables(docScan.fields)
          /\ FirstOccurrenceOrder(docScan.fields, DocMatches)
    /\ xlsScan.status = "resolved" =>
          /\ ScalarsBeforeTables(xlsScan.fields)
          /\ FirstOccurrenceOrder(xlsScan.fields, CellMatches)

\* a table tag ahead of two scalar tags in the source, all three returned
C1_Witness ==
    /\ docScan.status = "resolved"
    /\ xlsScan.status = "resolved"
    /\ Len(docScan.fields) = 3
    /\ Len(xlsScan.fields) = 3
    /\ IsTableContent(Trim(DocMatches[1].content))
    /\ ~docScan.fields[1].isTable
    /\ ~docScan.fields[2].isTable
    /\ docScan.fields[3].isTable

FieldNames(fs) == { fs[i].fieldName : i \in 1..Len(fs) }

OnePerContent(fs, ms) ==
    /\ \A i, j \in 1..Len(fs) : fs[i].fieldName = fs[j].fieldName => i = j
    /\ FieldNames(fs) = { Trim(ms[k].content) : k \in 1..Len(ms) }
    /\ \A i \in 1..Len(fs) :
          fs[i].originalTag = ms[FirstOccurrence(ms, fs[i].fieldName)].tag

\* C2: a scan returns exactly one field per distinct trimmed content, with
\* the tag text of the first occurrence, and the text with one of its tags
\* repeated scans to the same set of field names.
C2_OneFieldPerContent ==
    /\ docScan.status = "resolved" => OnePerContent(docScan.fields, DocMatches)
    /\ xlsScan.status = "resolved" => OnePerContent(xlsScan.fields, CellMatches)
    /\ (docScan.status = "resolved" /\ repScan.status = "resolved") =>
          /\ FieldNames(repScan.fields) = FieldNames(docScan.fields)
          /\ Len(repScan.fields) = Len(docScan.fields)

\* two tags that differ only in whitespace, and the repeated scan done
C2_Witness ==
    /\ docScan.status = "resolved"
    /\ repScan.status = "resolved"
    /\ Len(docScan.fields) < Len(DocMatches)
    /\ \E h, k \in 1..Len(DocMatches) :
          /\ DocMatches[h].tag # DocMatches[k].tag
          /\ Trim(DocMatches[h].content) = Trim(DocMatches[k].content)

ContainsKeyword(name) ==
    \E i \in 1..Len(name) :
        /\ i + Len(TABLE_KEYWORD) - 1 <= Len(name)
        /\ \A d \in 1..Len(TABLE_KEYWORD) : name[i + d - 1] = TABLE_KEYWORD[d]

TableIffKeyword(fs) ==
    \A i \in 1..Len(fs) : fs[i].isTable <=> ContainsKeyword(fs[i].fieldName)

\* C3: a returned field is a table field exactly when its trimmed content
\* contains the table keyword as a substring.
C3_TableIffKeyword ==
    /\ docScan.status = "resolved" => TableIffKeyword(docScan.fields)
    /\ xlsScan.status = "resolved" => TableIffKeyword(xlsScan.fields)

\* a table field whose name is longer than the keyword, beside a scalar field
\* whose name is a proper prefix of the keyword
C3_Witness ==
    /\ docScan.status = "resolved"
    /\ \E i, j \in 1..Len(docScan.fields) :
          /\ docScan.fields[i].isTable
          /\ Len(docScan.fields[i].fieldName) > Len(TABLE_KEYWORD)
          /\ ~docScan.fields[j].isTable
          /\ docScan.fields[j].fieldName = <<"T">>

CountOf(t, pat) == Cardinality({ i \in 1..Len(t) : StartsAt(t, i, pat) })

HasMarker(t) ==
    \E i, j \in 1..Len(t) :
        StartsAt(t, i, OPEN_DELIM) /\ StartsAt(t, j, CLOSE_DELIM) /\ j >= i + 3

WellFormedTags(fs, texts) ==
    \A i \in 1..Len(fs) :
        LET tag == fs[i].originalTag IN
        /\ Len(tag) >= 5
        /\ StartsAt(tag, 1, OPEN_DELIM)
        /\ StartsAt(tag, Len(tag) - 1, CLOSE_DELIM)
        /\ \E c \in 1..Len(texts) : Includes(texts[c], tag)

RECURSIVE SumCount(_, _)
SumCount(texts, pat) ==
    IF texts = <<>> THEN 0
    ELSE CountOf(Head(texts), pat) + SumCount(Tail(texts), pat)

\* texts: the texts the scan matched against (one raw text, or the cells)
NoFieldFromMalformed(scan, texts) ==
    /\ pkg = "ok" => scan.status # "rejected"
    /\ scan.status = "resolved" =>
          /\ WellFormedTags(scan.fields, texts)
          /\ Len(scan.fields) <= SumCount(texts, OPEN_DELIM)
          /\ Len(scan.fields) <= SumCount(texts, CLOSE_DELIM)
          /\ (\A c \in 1..Len(texts) : ~HasMarker(texts[c]))
                => scan.fields = <<>>

\* C4: an opening delimiter with no closing one after it, or a closing one
\* with no opening one before it, yields no field and no error, and a text
\* without a well-formed marker scans to the empty list.
C4_MalformedSkipped ==
    /\ NoFieldFromMalformed(docScan, <<RawText>>)
    /\ NoFieldFromMalformed(xlsScan, CellTexts)

\* a readable text with delimiters but no marker, scanned to the empty list
C4_Witness ==
    /\ docScan = Resolved(<<>>)
    /\ CountOf(RawText, OPEN_DELIM) > 0
    /\ CountOf(RawText, CLOSE_DELIM) > 0

(***************************************************************************)
(* Claims about the table fragment                                         *)
(***************************************************************************)
TextsOf(row) == [c \in 1..Len(row) |-> row[c].text]

ItemTexts(item, i) ==
    << NumToString(i), item.name, item.model, item.unit,
       NumToString(item.quantity), NumToString(item.price),
       NumToString(item.amount), item.remark >>

\* C5: the fragment has n + 2 rows: the header row, then for the i-th item a
\* row reading [i, name, model, unit, quantity, price, amount, remark], then
\* the total row carrying the total; an empty list gives header and total
\* only, the total cell reading "0" when the total is 0.
C5_TableRows ==
    tableDom.built =>
        LET rows == tableDom.rows
            n == Len(items)
        IN /\ Len(tableXml.rows) = n + 2
           /\ Len(rows) = n + 2
           /\ TextsOf(rows[1]) = headers
           /\ \A i \in 1..n : TextsOf(rows[i + 1]) = ItemTexts(items[i], i)
           /\ TextsOf(rows[n + 2]) = <<TOTAL_LABEL, NumToString(total), <<>>>>
           /\ rows[n + 2][1].gridSpan = 6
           /\ (n = 0 /\ total = 0) => rows[2][2].text = <<"0">>

\* two different items in the fragment
C5_Witness ==
    /\ tableDom.built
    /\ Len(items) = 2
    /\ items[1] # items[2]
    /\ Len(tableDom.rows) = 4

\* the empty list with total 0
C5_WitnessEmpty ==
    /\ tableDom.built
    /\ items = <<>>
    /\ total = 0
    /\ Len(tableDom.rows) = 2

NoRawMarkup(t) ==
    \A p \in 1..Len(t) :
        /\ t[p] # "<"
        /\ t[p] # ">"
        /\ t[p] = "&" => (StartsAt(t, p, AMP) \/ StartsAt(t, p, LT) \/ StartsAt(t, p, GT))

\* C6: the escaped text of a cell decodes back to the original text, and it
\* holds no raw < or > and no & outside the three entities.
C6_EscapeRoundTrip ==
    /\ tableXml.built =>
          \A r \in 1..Len(tableXml.rows) : \A c \in 1..Len(tableXml.rows[r]) :
              NoRawMarkup(tableXml.rows[r][c].text)
    /\ tableDom.built =>
          \A i \in 1..Len(items) :
              /\ tableDom.rows[i + 1][2].text = items[i].name
              /\ tableDom.rows[i + 1][8].text = items[i].remark

\* a name holding an entity string and a reserved character, parsed back
C6_Witness ==
    /\ tableDom.built
    /\ Len(items) = 1
    /\ items[1].name = LT \o <<"<">>
    /\ tableDom.rows[2][2].text = items[1].name
    /\ tableXml.rows[2][2].text # items[1].name

(***************************************************************************)
(* Claims about the generation                                             *)
(***************************************************************************)
\* the positions of the text nodes of a body, as a set
TextNodeSet(body) ==
    UNION { IF body[b].kind = "w:p"
            THEN { <<b, 0, r>> : r \in 1..Len(body[b].runs) }
            ELSE UNION { { <<b, c, r>> : r \in 1..Len(body[b].cells[c].runs) } :
                         c \in 1..Len(body[b].cells) }
          : b \in 1..Len(body) }

IsTextNode(body, loc) ==
    /\ loc[1] \in 1..Len(body)
    /\ IF loc[2] = 0
       THEN body[loc[1]].kind = "w:p" /\ loc[3] \in 1..Len(body[loc[1]].runs)
       ELSE /\ loc[2] \in 1..Len(body[loc[1]].cells)
            /\ loc[3] \in 1..Len(body[loc[1]].cells[loc[2]].runs)

SentinelNodes(body, placeholder) ==
    { loc \in TextNodeSet(body) :
        IsTextNode(body, loc) /\ TextContent(body, loc) = placeholder }

\* document order of text nodes
Precedes(l1, l2) ==
    \/ l1[1] < l2[1]
    \/ l1[1] = l2[1] /\ l1[2] < l2[2]
    \/ l1[1] = l2[1] /\ l1[2] = l2[2] /\ l1[3] < l2[3]

HasGeneratedTable(body) ==
    \E b \in 1..Len(body) :
        \/ body[b].rows # <<>>
        \/ \E c \in 1..Len(body[b].cells) : body[b].cells[c].rows # <<>>

Rendered == reader = "done" /\ file = "ok"

SoftFailure ==
    /\ gen.status = "resolved"
    /\ gen.blob = Package(run.rendered)
    /\ ~HasGeneratedTable(gen.blob.document)
    /\ run.warned

\* C7 as stated: with a table field, when no text node of the rendered part
\* equals the sentinel, the generation resolves, the primary part is the
\* rendered part and a warning is raised.
C7_SoftFailureAnyTableData ==
    (/\ Rendered
     /\ FindTableField(fields) # <<>>
     /\ SentinelNodes(run.rendered, run.placeholder) = {})
        => SoftFailure

\* C7 (amended): with a table field and table data, when no text node of the
\* rendered part equals the sentinel, the generation resolves, the primary
\* part is the rendered part without a table, and a warning is raised.
C7_SoftFailure ==
    (/\ Rendered
     /\ FindTableField(fields) # <<>>
     /\ tableData.present
     /\ SentinelNodes(run.rendered, run.placeholder) = {})
        => SoftFailure

\* the anchor shares its text node with other text, table data supplied
C7_Witness ==
    /\ Rendered
    /\ FindTableField(fields) # <<>>
    /\ tableData.present
    /\ SentinelNodes(run.rendered, run.placeholder) = {}
    /\ run.warned
    /\ gen.status = "resolved"

C8_WitnessNested ==
    /\ Rendered
    /\ run.spliced
    /\ \E b \in 1..Len(gen.blob.document) :
          \E c \in 1..Len(gen.blob.document[b].cells) :
              gen.blob.document[b].cells[c].rows # <<>>

TemplateNode(loc) ==
    IF loc[2] = 0 THEN template[loc[1]].runs[loc[3]]
    ELSE template[loc[1]].cells[loc[2]].runs[loc[3]]

TemplateTokens ==
    UNION { { TemplateNode(loc)[k] : k \in 1..Len(TemplateNode(loc)) } :
            loc \in { l \in TextNodeSet(template) : IsTextNode(template, l) } }

\* C9: the sentinel of a render differs from every value substituted for a
\* scalar field and from every text of the document, so a text node of the
\* rendered part equals the sentinel only if it is the anchor tag's node.
C9_SentinelUnique ==
    (Rendered /\ FindTableField(fields) # <<>>) =>
        LET anchor == FindTableField(fields)[1].fieldName IN
        /\ \A t \in TemplateTokens :
              /\ (t.kind = "tag" /\ t.s # anchor)
                    => TagValue(formData, t.s) # run.placeholder
              /\ t.kind = "lit" => t.s # run.placeholder
        /\ \A loc \in SentinelNodes(run.rendered, run.placeholder) :
              TemplateNode(loc) = <<Tag(anchor)>>

Settled == gen.status \in {"resolved", "rejected"}

\* C10: every started generation eventually settles, also when reading the
\* file fails.
C10_EveryGenerationSettles == (gen.status = "pending") ~> Settled

\* the parts of C10 that hold: the promise is settled at most once, a
\* generation that did not resolve yields no package and no download, and
\* COMPLETED is entered only with a resolved package
GenFailureLeavesNoOutput ==
    /\ settled <= 1
    /\ Settled <=> settled = 1
    /\ gen.status # "resolved" =>
          /\ gen.blob = <<>>
          /\ downloads \in {<<>>, <<EARLIER_ARTIFACT>>}
    /\ step = "COMPLETED" => gen.status = "resolved"
    /\ \A d \in 1..Len(downloads) :
          downloads[d] = EARLIER_ARTIFACT \/ downloads[d] = gen.blob

(***************************************************************************)
(* Claims about the wizard                                                 *)
(***************************************************************************)
\* C11: handleGenerate is entered only when no earlier generation is
\* unsettled: the promise of the earlier generateFilledDocument is not
\* pending and the earlier handleGenerate has run its finally.
C11_OneGenerationInFlight ==
    [][(generations' = generations + 1)
          => (gen.status # "pending" /\ ~isProcessing)]_vars

\* a second generation was started for a file whose first one had failed
C11_Witness ==
    /\ generations = 2
    /\ uploads = 1
    /\ gen.status = "pending"

\* a generation that never settles keeps the wizard off screen
C11_WitnessStuck ==
    /\ reader = "error"
    /\ gen.status = "pending"
    /\ step = "GENERATING"

(***************************************************************************)
(* Claims about the spreadsheet generation                                 *)
(***************************************************************************)
\* the rows of the sheet with a cell that contains the table field's tag
AnchorRows ==
    IF FindTableField(xlsFields) = <<>> THEN {}
    ELSE { k \in 1..Len(sheet) :
             \E c \in 1..Len(sheet[k]) :
                 /\ sheet[k][c].kind = "string"
                 /\ Includes(sheet[k][c].str,
                             FindTableField(xlsFields)[1].originalTag) }

\* the table of n items sits in rows r..r+n+1 of out: the header, the item
\* rows in order, the total row
TableAt(out, r) ==
    LET its == xlsTableData.items
        n   == Len(its)
    IN /\ Len(out) >= r + n + 1
       /\ out[r] = [h \in 1..Len(headers) |-> Str(headers[h])]
       /\ \A i \in 1..n :
             out[r + i] = << Num(i), Str(its[i].name), Str(its[i].model),
                             Str(its[i].unit), Num(its[i].quantity),
                             Num(its[i].price), Num(its[i].amount),
                             Str(its[i].remark) >>
       /\ out[r + n + 1] = << Str(XLS_TOTAL_LABEL), Str(<<>>), Str(<<>>),
                               Str(<<>>), Str(<<>>), Str(<<>>),
                               Num(xlsTableData.total), Str(<<>>) >>

\* every row below row r of the sheet is found d rows further down
ShiftedBelow(out, r, d) ==
    \A k \in (r + 1)..Len(sheet) :
        /\ k + d <= Len(out)
        /\ out[k + d] = FillRow(sheet[k], xlsData, FindTableField(xlsFields))

TableInserted ==
    /\ xlsOut.status = "resolved"
    /\ xlsTableData.present
    /\ AnchorRows # {}

\* the row the anchor is found at: the last one if several rows hold it
AnchorRow == CHOOSE k \in AnchorRows : \A j \in AnchorRows : j <= k

\* C12 as stated: with the anchor in row r and n items the table is in rows
\* r..r+n+1 and every row below the anchor has moved down by n+2.
C12_ShiftByHeaderItemsTotal ==
    TableInserted =>
        LET r == AnchorRow IN
        /\ TableAt(xlsOut.rows, r)
        /\ ShiftedBelow(xlsOut.rows, r, Len(xlsTableData.items) + 2)

\* C12: with the anchor in row r and n items the table is in rows r..r+n+1
\* (the header takes the place of the anchor row), every row below the
\* anchor has moved down by n+1, and the rows above it stay where they are.
C12_ShiftByItemsTotal ==
    TableInserted =>
        LET r == AnchorRow
            n == Len(xlsTableData.items)
        IN /\ TableAt(xlsOut.rows, r)
           /\ ShiftedBelow(xlsOut.rows, r, n + 1)
           /\ Len(xlsOut.rows) = Len(sheet) + n + 1
           /\ \A k \in 1..(r - 1) :
                 xlsOut.rows[k] = FillRow(sheet[k], xlsData,
                                          FindTableField(xlsFields))

\* a table of two items was put into a sheet with a row below the anchor
C12_Witness ==
    /\ TableInserted
    /\ Len(xlsTableData.items) = 2
    /\ AnchorRow < Len(sheet)
    /\ sheet[AnchorRow + 1] # <<>>

(***************************************************************************)
(* Claims about the table data                                             *)
(***************************************************************************)
\* the sum of the amounts, taken from the last row to the first
RECURSIVE AmountsTotal(_)
AmountsTotal(its) ==
    IF its = <<>> THEN 0
    ELSE AmountsTotal(SubSeq(its, 1, Len(its) - 1)) + its[Len(its)].amount

\* what the editor hands to the App has total = sum of the amounts, at least
\* one row, and is the editor's own state
EditorTotalIsSum ==
    edSaved.present =>
        /\ edSaved.total = AmountsTotal(edSaved.items)
        /\ edSaved.items = edItems
        /\ edTotal = edSaved.total
        /\ Len(edItems) >= 1

\* C13: a table is built only from table data whose total is the sum of the
\* amounts of its items.
C13_TotalVerifiedAtBuilder ==
    tableXml.built => total = AmountsTotal(items)

(***************************************************************************)
(* Claims about failures in the wizard                                     *)
(***************************************************************************)
\* the picked file cannot be read or is no package
UnreadablePackage == file \in {"unreadable", "corrupt", "empty"}

\* the primary part of the picked file holds no tag
NoMarkers == \A t \in TemplateTokens : t.kind # "tag"

IsPackage(blob) == blob # <<>> /\ DOMAIN blob = {"document", "others"}

\* C14: a failure never advances the wizard. Leaving ANALYZING: an
\* unreadable package or a document without markers leads to UPLOAD with an
\* error, a different one for each, and only a scan with fields leads to
\* WIZARD. Leaving GENERATING: a rejected generation leads to WIZARD with an
\* error. COMPLETED is entered only when generateFilledDocument has resolved
\* with a package, which is the one downloaded.
C14_FailureNeverAdvances ==
    [][ /\ (step = "ANALYZING" /\ step' # "ANALYZING") =>
              /\ UnreadablePackage =>
                    /\ step' = "UPLOAD"
                    /\ appError' \in {PARSE_FAILED, PARSE_ERROR}
              /\ (~UnreadablePackage /\ NoMarkers) =>
                    /\ step' = "UPLOAD"
                    /\ appError' = NO_MARKERS
                    /\ appError' \notin {PARSE_FAILED, PARSE_ERROR, "none"}
              /\ step' = "WIZARD" => fields' # <<>>
              /\ step' \in {"UPLOAD", "WIZARD"}
        /\ (step = "GENERATING" /\ step' # "GENERATING") =>
              /\ gen.status = "rejected" =>
                    /\ step' = "WIZARD"
                    /\ appError' # "none"
              /\ step' \in {"WIZARD", "COMPLETED"}
        /\ (step # "COMPLETED" /\ step' = "COMPLETED") =>
              /\ step = "GENERATING"
              /\ gen.status = "resolved"
              /\ IsPackage(gen.blob)
              /\ downloads' = Append(downloads, gen.blob)
        /\ (step # "WIZARD" /\ step' = "WIZARD") =>
              /\ step \in {"ANALYZING", "GENERATING"}
              /\ step = "GENERATING" => gen.status = "rejected"
      ]_vars

\* a generation failed and the wizard is back on the last field with the error
C14_Witness ==
    /\ step = "WIZARD"
    /\ gen.status = "rejected"
    /\ appError = gen.error
    /\ downloads = <<>>

\* a scan found no markers and the App is back on the upload step
C14_WitnessNoMarkers ==
    /\ step = "UPLOAD"
    /\ appError = NO_MARKERS

\* a scan failed and the App is back on the upload step
C14_WitnessUnreadable ==
    /\ step = "UPLOAD"
    /\ appError \in {PARSE_FAILED, PARSE_ERROR}

(***************************************************************************)
(* Claims about the table export                                           *)
(***************************************************************************)
\* the pieces of s between the occurrences of the character c
RECURSIVE SplitOn(_, _, _)
SplitOn(s, c, piece) ==
    IF s = <<>> THEN <<piece>>
    ELSE IF Head(s) = c THEN <<piece>> \o SplitOn(Tail(s), c, <<>>)
    ELSE SplitOn(Tail(s), c, Append(piece, Head(s)))

\* the rows and columns a reader of the file finds: the byte order mark is
\* dropped, rows end at a newline, columns at a comma
CsvRead(text) ==
    LET body  == IF text # <<>> /\ Head(text) = "BOM" THEN Tail(text) ELSE text
        lines == SplitOn(body, "\n", <<>>)
    IN [l \in 1..Len(lines) |-> SplitOn(lines[l], ",", <<>>)]

CsvAsClaimed ==
    LET table == CsvRead(csvBlob.text)
        n     == Len(csvItems)
    IN /\ Len(table) = n + 2
       /\ \A l \in 1..Len(table) : Len(table[l]) = 8
       /\ table[1] = headers
       /\ \A i \in 1..n :
             table[i + 1] = << NumToString(i), csvItems[i].name, csvItems[i].model,
                               csvItems[i].unit, NumToString(csvItems[i].quantity),
                               NumToString(csvItems[i].price),
                               NumToString(csvItems[i].amount), csvItems[i].remark >>
       /\ table[n + 2] = << <<>>, <<>>, <<>>, <<>>, <<>>, XLS_TOTAL_LABEL,
                            NumToString(csvTotal), <<>> >>

PlainText(t) == \A k \in 1..Len(t) : t[k] \notin {",", "\n"}

PlainItems ==
    \A i \in 1..Len(csvItems) :
        /\ PlainText(csvItems[i].name)
        /\ PlainText(csvItems[i].model)
        /\ PlainText(csvItems[i].unit)
        /\ PlainText(csvItems[i].remark)

\* C15 as stated: for every item list of length n and every total the export
\* has n+2 rows of 8 columns: the headers, the items, the total row.
C15_CsvShapeAnyItems == csvBlob.built => CsvAsClaimed

\* C15: for every item list of length n whose texts hold no comma and no
\* newline, and every total, the export has n+2 rows of 8 columns: the
\* headers, the items, the total row.
C15_CsvShape == (csvBlob.built /\ PlainItems) => CsvAsClaimed

\* two items without comma or newline were exported
C15_Witness ==
    /\ csvBlob.built
    /\ PlainItems
    /\ Len(csvItems) = 2

(***************************************************************************)
(* Claims about the stages of a generation                                 *)
(***************************************************************************)
Loaded == reader = "done"

\* C16 as stated: every run goes Idle, Parsed, one of Spliced and
\* SkippedNoAnchor, Serialized, and ends there or in a propagated ParseError,
\* whatever the table field and the table data.
C16_StagesAnyTableData ==
    Loaded =>
        \/ run.trace = <<"Idle", "ParseError">>
        \/ \E s \in {"Spliced", "SkippedNoAnchor"} :
              run.trace = <<"Idle", "Parsed", s, "Serialized", "Generated">>

\* C16: a run that fails ends in a propagated error, of the package or of
\* the template. A run that succeeds with a table field and table data
\* parses the primary part, takes exactly one of Spliced and
\* SkippedNoAnchor, serializes the primary part again after Spliced only,
\* and generates the package; without a table field or without table data it
\* generates the package without parsing the primary part.
C16_Stages ==
    Loaded =>
        IF file \in {"empty", "corrupt"} THEN
            /\ run.trace = <<"Idle", "ParseError">>
            /\ gen.status = "rejected"
        ELSE IF file = "badTemplate" THEN
            /\ run.trace = <<"Idle", "TemplateError">>
            /\ gen.status = "rejected"
        ELSE
            /\ gen.status = "resolved"
            /\ IF FindTableField(fields) # <<>> /\ tableData.present
               THEN IF SentinelNodes(run.rendered, run.placeholder) # {}
                    THEN run.trace = <<"Idle", "Parsed", "Spliced",
                                       "Serialized", "Generated">>
                    ELSE run.trace = <<"Idle", "Parsed", "SkippedNoAnchor",
                                       "Generated">>
               ELSE run.trace = <<"Idle", "Generated">>

\* a run with a table field and table data whose anchor shared its text run
C16_Witness ==
    /\ Loaded
    /\ run.trace = <<"Idle", "Parsed", "SkippedNoAnchor", "Generated">>

\* a run with table data and no table field
C16_WitnessNoField ==
    /\ Loaded
    /\ file = "ok"
    /\ FindTableField(fields) = <<>>
    /\ tableData.present
    /\ run.trace = <<"Idle", "Generated">>

\* a run that spliced
C16_WitnessSpliced ==
    /\ Loaded
    /\ run.trace = <<"Idle", "Parsed", "Spliced", "Serialized", "Generated">>

(***************************************************************************)
(* Claims about the substitution in cells                                  *)
(***************************************************************************)
HasValue(data, key) == key \in DOMAIN data /\ data[key] # NoValue

\* one pass over the text as it was: every tag with a value gives way to
\* the value, everything else is copied
RECURSIVE OpaqueFrom(_, _, _, _)
OpaqueFrom(text, matches, pos, data) ==
    IF matches = <<>> THEN SubSeq(text, pos, Len(text))
    ELSE LET m   == Head(matches)
             key == Trim(m.content)
         IN SubSeq(text, pos, m.index - 1)
            \o (IF HasValue(data, key) THEN data[key] ELSE m.tag)
            \o OpaqueFrom(text, Tail(matches), m.index + Len(m.tag), data)

OpaqueSubst(text, data) == OpaqueFrom(text, PLACEHOLDER_REGEX(text), 1, data)

\* no value holds a dollar sign
DollarFree ==
    \A n \in DOMAIN xlsData :
        \A k \in 1..Len(xlsData[n]) : xlsData[n][k] # "$"

\* C17: in a sheet without the table anchor every text cell comes out as
\* its text with each tag replaced by the value of its field, the values
\* taken as they are: a value that holds the tag of another field stays as
\* it is, and that field's own tags are replaced.
C17_ValuesOpaque ==
    (xlsOut.status = "resolved" /\ AnchorRows = {} /\ DollarFree) =>
        /\ Len(xlsOut.rows) = Len(sheet)
        /\ \A k \in 1..Len(sheet) :
              /\ Len(xlsOut.rows[k]) = Len(sheet[k])
              /\ \A c \in 1..Len(sheet[k]) :
                    sheet[k][c].kind = "string" =>
                        xlsOut.rows[k][c] = Str(OpaqueSubst(sheet[k][c].str, xlsData))

(***************************************************************************)
(* Claims about the field index                                            *)
(***************************************************************************)
\* C18: while the step is WIZARD the index of the current field is an index
\* of fields.
C18_IndexInRange ==
    step = "WIZARD" =>
        /\ 0 <= currentFieldIndex
        /\ currentFieldIndex < Len(fields)

(***************************************************************************)
(* Claims about the sentinel in the output                                 *)
(***************************************************************************)
\* neither the document nor a typed value holds the sentinel's prefix
InputsFreeOfSentinel ==
    /\ \A t \in TemplateTokens :
          t.kind = "lit" => ~Includes(t.s, SENTINEL_PREFIX)
    /\ \A n \in DOMAIN formData : ~Includes(formData[n], SENTINEL_PREFIX)

\* C19: no text node of the primary part of the package that
\* generateFilledDocument resolves with contains the sentinel token.
C19_SentinelNeverEmitted ==
    (Loaded /\ gen.status = "resolved" /\ InputsFreeOfSentinel) =>
        \A loc \in TextNodeSet(gen.blob.document) :
            IsTextNode(gen.blob.document, loc) =>
                ~Includes(TextContent(gen.blob.document, loc), SENTINEL_PREFIX)

====
